---- MODULE Spec2Model ----
(***************************************************************************)
(* cuco::static_multimap (include/cuco/detail/static_multimap.inl):        *)
(* a fixed-capacity open-addressing multimap whose slots are pairs of      *)
(* independently atomic words (key, value).  Workers insert with a key CAS *)
(* followed by a value CAS, and query by probing from initial_slot.        *)
(*                                                                         *)
(* Every worker (Procs) runs one device operation.  A run uses one         *)
(* protocol throughout (mode): "single" is the single-worker overloads,    *)
(* "cg" the cooperative-group overloads.  initial_slot and next_slot are   *)
(* declared in static_multimap.cuh; as the design document gives them, the *)
(* cooperative probe starts at the window base (h mod (capacity/W)) * W    *)
(* and advances by W.  The lanes of a group execute in lockstep on the     *)
(* window at current_slot: the insert's vector load reads its two slots    *)
(* (arr[0], arr[1]), the queries load current_slot->first.                 *)
(*                                                                         *)
(* Spec         the device operations on a constructed, initialised table  *)
(* SpecFair     the insert kernel alone, every running worker scheduled    *)
(*              again and again                                            *)
(* SpecCtor     the constructor, its initialize kernel and one bulk call   *)
(* SpecCapacity the constructor's capacity, for every request and width    *)
(* SpecProbe    the probe sequence alone, for every hash value and capacity *)
(* SpecBulk     bulk insert and bulk find / contains calls that do not     *)
(*              overlap, every probing query scheduled again and again     *)
(***************************************************************************)
EXTENDS Integers, Sequences, FiniteSets

\* ---------------------------------------------------------------- bounds
NumProcs   == 3   \* workers (single) or groups (cg) that run concurrently
NumKeys    == 3   \* real keys are 1..NumKeys
NumWindows == 2   \* the requested capacity is at most NumWindows * W slots
MaxEnum    == 3   \* an enumeration that never meets an empty slot stops here
MaxRequested == 7 \* SpecCapacity: the requested capacity is 1..MaxRequested
MaxCGSize  == 4   \* SpecCapacity: the group width is 1..MaxCGSize
MaxProbeWindows == 4  \* SpecProbe: the capacity is at most MaxProbeWindows * W
MaxHash    == 9   \* SpecProbe: hash values are 0..MaxHash

\* ------------------------------------------------------ program constants
W        == 2     \* slots of a window (the vector load reads arr[2]); lanes of a group
EmptyKey == 0     \* empty_key_sentinel_

\* The ghost probe-step counter saturates at one full round of the largest table.
MaxSteps == NumWindows * W

Procs  == 1..NumProcs
Keys   == 1..NumKeys
Lanes  == 0..(W - 1)
Modes  == {"single", "cg"}
Kinds  == {"insert", "find", "contains", "find_all"}

\* The value a worker inserts: distinct per worker, never a sentinel.
ValueOf(p) == 10 + p

VARIABLES
  slots,                   \* slots_[i] = [key, value], i in 0..capacity_-1
  capacity_,               \* get_capacity()
  empty_value_sentinel_,   \* get_empty_value_sentinel()
  mode,                    \* protocol of this run
  pc,                      \* position of every worker in its operation
  op,                      \* the operation of every worker: [kind, key, value]
  current_slot,            \* the probe position of every worker
  insert_location,         \* the slot the insert CASes on
  key_success,             \* result of the worker's key CAS
  res,                     \* result of a finished query: [found, slot, value]
  matches,                 \* pairs an enumeration has yielded so far
  num_items,               \* the per-bulk-call atomic counter
  steps,                   \* ghost: next_slot calls of the insert (saturating)
  quiet,                   \* ghost: the query runs on a table no insert touches
  key_equal_args,          \* ghost: slot keys key_equal has been invoked with
  observed,                \* ghost: keys a finished find/contains saw present
  after_observed,          \* ghost: the query started after its key was observed
  batch,                   \* ghost: the inserts that had returned when it started
  requested,               \* the capacity the constructor was called with
  cg_size,                 \* the CGSize the map was instantiated with
  host,                    \* position of the host: "new", "constructed", "launched"
  stream,                  \* the stream the bulk call launched its kernel on
  initialized,             \* slots the initialize kernel has written
  src_lane                 \* the lane the last ballot of the group elected

vars == <<slots, capacity_, empty_value_sentinel_, mode, pc, op, current_slot,
          insert_location, key_success, res, matches, num_items, steps,
          quiet, key_equal_args, observed, after_observed, batch,
          requested, cg_size, host, stream, initialized, src_lane>>

\* What only the host's constructor and kernel launches change.
ctor_vars == <<requested, cg_size, host, stream, initialized>>

\* ------------------------------------------------------- caller functions
hash(k) == k
key_equal(a, b) == a = b
bitwise_compare(a, b) == a = b

\* ------------------------------------------------------- probing sequence
initial_slot(k) == hash(k) % capacity_
next_slot(s) == (s + 1) % capacity_
initial_slot_cg(k) == (hash(k) % (capacity_ \div W)) * W
next_slot_cg_ByOne(s) == (s + 1) % capacity_
next_slot_cg(s) == (s + W) % capacity_

InitialSlot(k) == IF mode = "cg" THEN initial_slot_cg(k) ELSE initial_slot(k)
NextSlot(s) == IF mode = "cg" THEN next_slot_cg(s) ELSE next_slot(s)

\* g.ballot(pred): the lanes that vote; __ffs(mask) - 1: the lowest of them.
ballot(pred) == {r \in Lanes : pred}
ffs_Highest(mask) == CHOOSE r \in mask : \A q \in mask : r >= q
ffs(mask) == CHOOSE r \in mask : \A q \in mask : r <= q

\* detail::get_valid_capacity<CGSize>(capacity): the smallest multiple of the
\* group width that is not below the requested capacity.
get_valid_capacity_Floor(cg, c) == (c \div cg) * cg
get_valid_capacity(cg, c) == ((c + cg - 1) \div cg) * cg

\* A slot of the table after construction and initialisation.
EmptySlot == [key |-> EmptyKey, value |-> empty_value_sentinel_]

\* ------------------------------------------------------------------ Init
NoRes == [found |-> FALSE, slot |-> -1, value |-> -1]
NoOp  == [kind |-> "none", key |-> 0, value |-> 0]

\* No worker has been handed anything yet.
WorkersIdle ==
  /\ pc = [p \in Procs |-> "idle"]
  /\ op = [p \in Procs |-> NoOp]
  /\ current_slot = [p \in Procs |-> 0]
  /\ insert_location = [p \in Procs |-> 0]
  /\ key_success = [p \in Procs |-> FALSE]
  /\ res = [p \in Procs |-> NoRes]
  /\ matches = [p \in Procs |-> <<>>]
  /\ num_items = 0
  /\ steps = [p \in Procs |-> 0]
  /\ quiet = [p \in Procs |-> FALSE]
  /\ key_equal_args = {}
  /\ observed = {}
  /\ after_observed = [p \in Procs |-> FALSE]
  /\ batch = [p \in Procs |-> {}]
  /\ src_lane = [p \in Procs |-> 0]

Init ==
  /\ cg_size = W
  /\ requested \in {n * W - 1 : n \in 1..NumWindows}
  /\ capacity_ = get_valid_capacity(cg_size, requested)
  /\ host = "launched"
  /\ stream = "legacy_default"
  /\ initialized = 0..(capacity_ - 1)
  /\ \E ev \in {EmptyKey, 1} :
       /\ empty_value_sentinel_ = ev
       /\ mode \in (IF ev = EmptyKey THEN Modes ELSE {"cg"})
  /\ slots = [i \in 0..(capacity_ - 1) |-> EmptySlot]
  /\ WorkersIdle


\* --------------------------------------------------------------- helpers
Min(a, b) == IF a < b THEN a ELSE b

\* A query that is probing when a slot word changes is no longer on a
\* quiescent table.
Disturb == [q \in Procs |-> quiet[q] /\ pc[q] # "probe"]

\* Every insert that was started has returned (the batch has synchronised).
NoInsertRunning == \A q \in Procs : op[q].kind = "insert" => pc[q] = "done"

\* atomic::compare_exchange_strong(expected, desired): does it exchange?
compare_exchange_strong_Overwrite(current, expected) == TRUE
compare_exchange_strong(current, expected) == current = expected

\* "else if (value_success)": the worker rolls its value back.
needs_rollback_Always(ks, vs) == ~ks
needs_rollback_Never(ks, vs) == FALSE
needs_rollback(ks, vs) == ~ks /\ vs

\* ------------------------------------------------------ operation entry
\* A worker (group) is handed one key or pair and computes initial_slot.
Start(p) ==
  /\ pc[p] = "idle"
  /\ \E kind \in Kinds, k \in Keys :
       /\ op' = [op EXCEPT ![p] =
                   [kind |-> kind, key |-> k,
                    value |-> IF kind = "insert" THEN ValueOf(p) ELSE 0]]
       /\ current_slot' = [current_slot EXCEPT ![p] = InitialSlot(k)]
       /\ insert_location' = [insert_location EXCEPT ![p] = InitialSlot(k)]
       /\ pc' = [pc EXCEPT ![p] =
                   IF kind = "insert"
                   THEN (IF mode = "cg" THEN "load" ELSE "kcas")
                   ELSE "probe"]
       /\ after_observed' = [after_observed EXCEPT ![p] = k \in observed]
       /\ quiet' = [quiet EXCEPT ![p] = kind # "insert" /\ NoInsertRunning]
       /\ batch' = [batch EXCEPT ![p] =
                      IF kind = "insert" THEN {}
                      ELSE {q \in Procs : op[q].kind = "insert" /\ pc[q] = "done"}]
  /\ UNCHANGED <<slots, capacity_, empty_value_sentinel_, mode, ctor_vars, src_lane, key_success,
                 res, matches, num_items, steps, key_equal_args, observed>>

\* ------------------------------------------------- the two-CAS protocol
\* A key CAS that fails although the key word holds the expected sentinel.
KeyCAS_Spurious(p) ==
  /\ pc[p] = "kcas"
  /\ key_success' = [key_success EXCEPT ![p] = FALSE]
  /\ pc' = [pc EXCEPT ![p] = "vcas"]
  /\ UNCHANGED <<slots, quiet, capacity_, empty_value_sentinel_, mode, ctor_vars,
                 src_lane, op, current_slot, insert_location, res, matches,
                 num_items, steps, key_equal_args, observed, after_observed, batch>>
\* slot_key.compare_exchange_strong(expected_key, insert_pair.first)
KeyCAS(p) ==
  LET loc == insert_location[p]
      ok  == compare_exchange_strong(slots[loc].key, EmptyKey)
  IN /\ pc[p] = "kcas"
     /\ slots' = IF ok THEN [slots EXCEPT ![loc].key = op[p].key] ELSE slots
     /\ quiet' = IF ok THEN Disturb ELSE quiet
     /\ key_success' = [key_success EXCEPT ![p] = ok]
     /\ pc' = [pc EXCEPT ![p] = "vcas"]
     /\ UNCHANGED <<capacity_, empty_value_sentinel_, mode, ctor_vars, src_lane, op, current_slot,
                    insert_location, res, matches, num_items, steps,
                    key_equal_args, observed, after_observed, batch>>

\* What the insert does once it has not taken the slot: the single-worker
\* insert moves to next_slot, the cooperative one retries the same window.
Continue_Advance(p, after) ==
  /\ pc' = [pc EXCEPT ![p] = IF mode = "cg" THEN "load" ELSE after]
  /\ current_slot' = [current_slot EXCEPT ![p] = NextSlot(current_slot[p])]
  /\ insert_location' =
       [insert_location EXCEPT ![p] = NextSlot(current_slot[p])]
  /\ steps' = [steps EXCEPT ![p] = Min(steps[p] + 1, MaxSteps)]
Continue(p, after) ==
  IF mode = "cg"
  THEN /\ pc' = [pc EXCEPT ![p] = "load"]
       /\ UNCHANGED <<current_slot, insert_location, steps>>
  ELSE /\ pc' = [pc EXCEPT ![p] = after]
       /\ current_slot' = [current_slot EXCEPT ![p] = next_slot(current_slot[p])]
       /\ insert_location' =
            [insert_location EXCEPT ![p] = next_slot(current_slot[p])]
       /\ steps' = [steps EXCEPT ![p] = Min(steps[p] + 1, MaxSteps)]

\* slot_value.compare_exchange_strong(expected_value, insert_pair.second),
\* and the branch on key_success / value_success that follows it.
ValueCAS(p) ==
  LET loc == insert_location[p]
      ok  == compare_exchange_strong(slots[loc].value, empty_value_sentinel_)
  IN /\ pc[p] = "vcas"
     /\ slots' = IF ok THEN [slots EXCEPT ![loc].value = op[p].value] ELSE slots
     /\ quiet' = IF ok THEN Disturb ELSE quiet
     /\ IF key_success[p]
        THEN /\ pc' = [pc EXCEPT ![p] = IF ok THEN "done" ELSE "retry"]
             /\ UNCHANGED <<current_slot, insert_location, steps>>
        ELSE IF needs_rollback(key_success[p], ok)
        THEN /\ pc' = [pc EXCEPT ![p] = "rollback"]
             /\ UNCHANGED <<current_slot, insert_location, steps>>
        ELSE Continue(p, "kcas")
     /\ UNCHANGED <<capacity_, empty_value_sentinel_, mode, ctor_vars, src_lane, op, key_success,
                    res, matches, num_items, key_equal_args, observed,
                    after_observed, batch>>

\* while (not value_success) { value_success = slot_value.compare_exchange_strong(...) }
RetryValueCAS(p) ==
  LET loc == insert_location[p]
      ok  == compare_exchange_strong(slots[loc].value, empty_value_sentinel_)
  IN /\ pc[p] = "retry"
     /\ slots' = IF ok THEN [slots EXCEPT ![loc].value = op[p].value] ELSE slots
     /\ quiet' = IF ok THEN Disturb ELSE quiet
     /\ pc' = [pc EXCEPT ![p] = IF ok THEN "done" ELSE "retry"]
     /\ UNCHANGED <<capacity_, empty_value_sentinel_, mode, ctor_vars, src_lane, op, current_slot,
                    insert_location, key_success, res, matches, num_items,
                    steps, key_equal_args, observed, after_observed, batch>>

\* slot_value.store(get_empty_value_sentinel())
Rollback(p) ==
  LET loc == insert_location[p]
  IN /\ pc[p] = "rollback"
     /\ slots' = [slots EXCEPT ![loc].value = empty_value_sentinel_]
     /\ quiet' = Disturb
     /\ Continue(p, "kcas")
     /\ UNCHANGED <<capacity_, empty_value_sentinel_, mode, ctor_vars, src_lane, op, key_success,
                    res, matches, num_items, key_equal_args, observed,
                    after_observed, batch>>

\* ------------------------------------------------ single-worker insert
insert_key_cas(p)   == mode = "single" /\ KeyCAS(p)
insert_value_cas(p) == mode = "single" /\ ValueCAS(p)
insert_retry(p)     == mode = "single" /\ RetryValueCAS(p)
insert_rollback(p)  == mode = "single" /\ Rollback(p)

\* --------------------------------------------------- cooperative insert
\* The emptiness test of the loaded window (it compares the slot KEY with
\* the empty VALUE sentinel).
first_slot_is_empty(arr) == bitwise_compare(arr[1].key, empty_value_sentinel_)
second_slot_is_empty(arr) == bitwise_compare(arr[2].key, empty_value_sentinel_)

\* insert_location = current_slot + !(first_slot_is_empty)
cg_insert_location(cur, arr) == cur + (IF first_slot_is_empty(arr) THEN 0 ELSE 1)

\* The vector load of the window, the ballot, and either the election of a
\* lane or the move to the next window.
cg_insert_load(p) ==
  LET cur == current_slot[p]
      arr == <<slots[cur], slots[cur + 1]>>
      window_contains_empty ==
        ballot(first_slot_is_empty(arr) \/ second_slot_is_empty(arr))
  IN /\ mode = "cg"
     /\ pc[p] = "load"
     /\ IF window_contains_empty # {}
        THEN /\ src_lane' = [src_lane EXCEPT ![p] = ffs(window_contains_empty)]
             /\ insert_location' =
                  [insert_location EXCEPT ![p] = cg_insert_location(cur, arr)]
             /\ pc' = [pc EXCEPT ![p] = "kcas"]
             /\ UNCHANGED <<current_slot, steps>>
        ELSE /\ current_slot' = [current_slot EXCEPT ![p] = next_slot_cg(cur)]
             /\ steps' = [steps EXCEPT ![p] = Min(steps[p] + 1, MaxSteps)]
             /\ UNCHANGED <<insert_location, pc, src_lane>>
     /\ UNCHANGED <<slots, capacity_, empty_value_sentinel_, mode, ctor_vars, op,
                    key_success, res, matches, num_items, quiet,
                    key_equal_args, observed, after_observed, batch>>

cg_insert_key_cas(p)   == mode = "cg" /\ KeyCAS(p)
cg_insert_value_cas(p) == mode = "cg" /\ ValueCAS(p)
cg_insert_retry(p)     == mode = "cg" /\ RetryValueCAS(p)
cg_insert_rollback(p)  == mode = "cg" /\ Rollback(p)


\* ----------------------------------------------------------- the queries
\* One iteration of a query loop on the loaded slot key: where the loop goes
\* ("end": an empty slot, "found": a match, "next": advance) and the slot
\* keys that key_equal was invoked with on the way.

\* find (single worker): the sentinel test, then key_equal.
find_iteration_KeyEqualFirst(existing_key, k) ==
  [out |-> IF key_equal(existing_key, k) THEN "found"
           ELSE IF bitwise_compare(existing_key, EmptyKey) THEN "end"
           ELSE "next",
   keq |-> {existing_key}]
find_iteration(existing_key, k) ==
  IF bitwise_compare(existing_key, EmptyKey)
  THEN [out |-> "end", keq |-> {}]
  ELSE [out |-> IF key_equal(existing_key, k) THEN "found" ELSE "next",
        keq |-> {existing_key}]

\* contains (single worker)
contains_iteration_AnyKey(existing_key, k) ==
  IF bitwise_compare(existing_key, EmptyKey)
  THEN [out |-> "end", keq |-> {}]
  ELSE [out |-> "found", keq |-> {existing_key}]
contains_iteration(existing_key, k) ==
  IF bitwise_compare(existing_key, EmptyKey)
  THEN [out |-> "end", keq |-> {}]
  ELSE [out |-> IF key_equal(existing_key, k) THEN "found" ELSE "next",
        keq |-> {existing_key}]

\* A find that takes every stored key for a match.
find_cg_iteration_AnyKey(existing_key, k) ==
  IF bitwise_compare(existing_key, EmptyKey)
  THEN [out |-> "end", keq |-> {}]
  ELSE [out |-> "found", keq |-> {existing_key}]

\* find (cooperative): exists = g.ballot(not slot_is_empty and key_equal(..)),
\* then g.ballot(slot_is_empty); `and` does not evaluate key_equal on an
\* empty slot.
find_cg_iteration(existing_key, k) ==
  LET slot_is_empty == bitwise_compare(existing_key, EmptyKey)
      exists == ballot(~slot_is_empty /\ key_equal(existing_key, k))
      keq    == IF slot_is_empty THEN {} ELSE {existing_key}
  IN IF exists # {} THEN [out |-> "found", keq |-> keq]
     ELSE IF ballot(slot_is_empty) # {} THEN [out |-> "end", keq |-> keq]
     ELSE [out |-> "next", keq |-> keq]

\* contains (cooperative)
contains_cg_iteration(existing_key, k) ==
  LET slot_is_empty == bitwise_compare(existing_key, EmptyKey)
      keq == IF slot_is_empty THEN {} ELSE {existing_key}
  IN IF ballot(~slot_is_empty /\ key_equal(existing_key, k)) # {}
     THEN [out |-> "found", keq |-> keq]
     ELSE IF ballot(slot_is_empty) # {} THEN [out |-> "end", keq |-> keq]
     ELSE [out |-> "next", keq |-> keq]

\* find_all (cooperative): slot_is_empty = (existing_key == empty key sentinel)
find_all_cg_iteration(existing_key, k) ==
  LET slot_is_empty == (existing_key = EmptyKey)
      exists == ballot(~slot_is_empty /\ key_equal(existing_key, k))
      keq    == IF slot_is_empty THEN {} ELSE {existing_key}
  IN IF exists # {} THEN [out |-> "found", keq |-> keq]
     ELSE IF ballot(slot_is_empty) # {} THEN [out |-> "end", keq |-> keq]
     ELSE [out |-> "next", keq |-> keq]

\* find_all (single worker): the loop of find, continued by the cursor.
find_all_iteration(existing_key, k) ==
  IF bitwise_compare(existing_key, EmptyKey)
  THEN [out |-> "end", keq |-> {}]
  ELSE [out |-> IF key_equal(existing_key, k) THEN "found" ELSE "next",
        keq |-> {existing_key}]

\* The caller of find dereferences the iterator it gets: found->second.
deref_value(s) == slots[s].value

\* The queries are const members: they only load from the slots.
QueryUnchanged_Erases ==
  /\ slots' = [i \in DOMAIN slots |-> EmptySlot]
  /\ UNCHANGED <<capacity_, empty_value_sentinel_, mode, ctor_vars, src_lane, op,
                 insert_location, key_success, steps, quiet, after_observed, batch>>
QueryUnchanged ==
  UNCHANGED <<slots, capacity_, empty_value_sentinel_, mode, ctor_vars, src_lane, op,
              insert_location, key_success, steps, quiet, after_observed, batch>>

\* find / contains: one loop iteration on current_slot->first.load().
PointQuery(p, it, next) ==
  /\ pc[p] = "probe"
  /\ key_equal_args' = key_equal_args \cup it.keq
  /\ CASE it.out = "end" ->
            /\ pc' = [pc EXCEPT ![p] = "done"]
            /\ res' = [res EXCEPT ![p] = NoRes]
            /\ UNCHANGED <<current_slot, observed>>
       [] it.out = "found" ->
            /\ pc' = [pc EXCEPT ![p] = "done"]
            /\ res' = [res EXCEPT ![p] =
                         [found |-> TRUE, slot |-> current_slot[p],
                          value |-> deref_value(current_slot[p])]]
            /\ observed' = observed \cup {op[p].key}
            /\ UNCHANGED current_slot
       [] it.out = "next" ->
            /\ current_slot' = [current_slot EXCEPT ![p] = next]
            /\ UNCHANGED <<pc, res, observed>>
  /\ UNCHANGED <<matches, num_items>>
  /\ QueryUnchanged

find(p) ==
  /\ mode = "single" /\ op[p].kind = "find"
  /\ PointQuery(p, find_iteration(slots[current_slot[p]].key, op[p].key),
                next_slot(current_slot[p]))

find_cg(p) ==
  /\ mode = "cg" /\ op[p].kind = "find"
  /\ PointQuery(p, find_cg_iteration(slots[current_slot[p]].key, op[p].key),
                next_slot_cg(current_slot[p]))

contains(p) ==
  /\ mode = "single" /\ op[p].kind = "contains"
  /\ PointQuery(p, contains_iteration(slots[current_slot[p]].key, op[p].key),
                next_slot(current_slot[p]))

contains_cg(p) ==
  /\ mode = "cg" /\ op[p].kind = "contains"
  /\ PointQuery(p, contains_cg_iteration(slots[current_slot[p]].key, op[p].key),
                next_slot_cg(current_slot[p]))

\* find_all and the cursor's operator++, as count(k) and the find_all kernel
\* drive them: every match is yielded and probing resumes behind it; at an
\* empty slot the cursor equals end() and the number of yielded items is
\* added to the bulk call's counter.
Enumerate(p, it, next) ==
  /\ pc[p] = "probe"
  /\ Len(matches[p]) < MaxEnum
  /\ key_equal_args' = key_equal_args \cup it.keq
  /\ CASE it.out = "end" ->
            /\ pc' = [pc EXCEPT ![p] = "done"]
            /\ num_items' = num_items + Len(matches[p])
            /\ UNCHANGED <<current_slot, matches>>
       [] it.out = "found" ->
            /\ matches' = [matches EXCEPT ![p] =
                 Append(@, [slot |-> current_slot[p],
                            value |-> deref_value(current_slot[p])])]
            /\ current_slot' = [current_slot EXCEPT ![p] = next]
            /\ UNCHANGED <<pc, num_items>>
       [] it.out = "next" ->
            /\ current_slot' = [current_slot EXCEPT ![p] = next]
            /\ UNCHANGED <<pc, matches, num_items>>
  /\ UNCHANGED <<res, observed>>
  /\ QueryUnchanged

find_all(p) ==
  /\ mode = "single" /\ op[p].kind = "find_all"
  /\ Enumerate(p, find_all_iteration(slots[current_slot[p]].key, op[p].key),
               next_slot(current_slot[p]))

find_all_cg(p) ==
  /\ mode = "cg" /\ op[p].kind = "find_all"
  /\ Enumerate(p, find_all_cg_iteration(slots[current_slot[p]].key, op[p].key),
               next_slot_cg(current_slot[p]))

\* A worker whose point query has returned is handed the next key of the
\* batch (the strided loop of the bulk find / contains kernel).
next_key(p) ==
  /\ pc[p] = "done"
  /\ op[p].kind \in {"find", "contains"}
  /\ pc' = [pc EXCEPT ![p] = "idle"]
  /\ op' = [op EXCEPT ![p] = NoOp]
  /\ res' = [res EXCEPT ![p] = NoRes]
  /\ current_slot' = [current_slot EXCEPT ![p] = 0]
  /\ insert_location' = [insert_location EXCEPT ![p] = 0]
  /\ quiet' = [quiet EXCEPT ![p] = FALSE]
  /\ after_observed' = [after_observed EXCEPT ![p] = FALSE]
  /\ batch' = [batch EXCEPT ![p] = {}]
  /\ UNCHANGED <<slots, capacity_, empty_value_sentinel_, mode, ctor_vars, src_lane, key_success,
                 matches, num_items, steps, key_equal_args, observed>>

\* ------------------------------------------------------------------ Next
\* One step of worker (group) p of a kernel.
Step(p) ==
  \/ Start(p)
  \/ insert_key_cas(p)
  \/ insert_value_cas(p)
  \/ insert_retry(p)
  \/ insert_rollback(p)
  \/ cg_insert_load(p)
  \/ cg_insert_key_cas(p)
  \/ cg_insert_value_cas(p)
  \/ cg_insert_retry(p)
  \/ cg_insert_rollback(p)
  \/ find(p)
  \/ find_cg(p)
  \/ contains(p)
  \/ contains_cg(p)
  \/ find_all(p)
  \/ find_all_cg(p)
  \/ next_key(p)

Next == \E p \in Procs : Step(p)

Spec == Init /\ [][Next]_vars

\* ------------------------------------------------ fairly scheduled inserts
\* A step of the insert that worker p is running.
InsertStep(p) ==
  \/ insert_key_cas(p)
  \/ insert_value_cas(p)
  \/ insert_retry(p)
  \/ insert_rollback(p)
  \/ cg_insert_load(p)
  \/ cg_insert_key_cas(p)
  \/ cg_insert_value_cas(p)
  \/ cg_insert_retry(p)
  \/ cg_insert_rollback(p)

\* The insert kernel: every worker is handed a pair.
StartInsert(p) == Start(p) /\ op'[p].kind = "insert"

InsertNext == \E p \in Procs : StartInsert(p) \/ InsertStep(p)

\* The device schedules every running worker again and again; a CAS that
\* fails changes nothing, so a worker whose CAS could succeed only now and
\* then is not promised to succeed.
SpecFair ==
  /\ Init
  /\ [][InsertNext]_vars
  /\ \A p \in Procs : WF_vars(InsertStep(p))

\* ------------------------------------------------ bulk calls, one by one
\* Every bulk call ends with cudaDeviceSynchronize: the workers of a find or
\* contains kernel run on a table that no insert kernel is changing.
NoQueryRunning == \A q \in Procs : pc[q] # "probe"

BulkInsertStart(p) == NoQueryRunning /\ StartInsert(p)
BulkQueryStart(p) ==
  NoInsertRunning /\ Start(p) /\ op'[p].kind \in {"find", "contains"}

\* A step of the find or contains that worker p is running.
QueryStep(p) == find(p) \/ find_cg(p) \/ contains(p) \/ contains_cg(p)

BulkNext ==
  \E p \in Procs :
    \/ BulkInsertStart(p)
    \/ InsertStep(p)
    \/ BulkQueryStart(p)
    \/ QueryStep(p)

SpecBulk ==
  /\ Init
  /\ [][BulkNext]_vars
  /\ \A p \in Procs : WF_vars(QueryStep(p))

\* ---------------------------------------------------- the probe sequence
\* One worker walks the probe sequence of a hash value for one round: the
\* current_slot of a loop that never finds what it looks for.
ProbeProcs == {1}

probe_initial(p) ==
  /\ pc[p] = "idle"
  /\ \E h \in 0..MaxHash :
       /\ op' = [op EXCEPT ![p] = [kind |-> "probe", key |-> h, value |-> 0]]
       /\ current_slot' = [current_slot EXCEPT ![p] = InitialSlot(h)]
  /\ pc' = [pc EXCEPT ![p] = "walk"]
  /\ UNCHANGED <<slots, capacity_, empty_value_sentinel_, mode, ctor_vars,
                 src_lane, insert_location, key_success, res, matches,
                 num_items, steps, quiet, key_equal_args, observed,
                 after_observed, batch>>

probe_next(p) ==
  /\ pc[p] = "walk"
  /\ steps[p] < (IF mode = "cg" THEN capacity_ \div W ELSE capacity_)
  /\ current_slot' = [current_slot EXCEPT ![p] = NextSlot(current_slot[p])]
  /\ steps' = [steps EXCEPT ![p] = steps[p] + 1]
  /\ UNCHANGED <<slots, capacity_, empty_value_sentinel_, mode, ctor_vars,
                 src_lane, pc, op, insert_location, key_success, res, matches,
                 num_items, quiet, key_equal_args, observed, after_observed,
                 batch>>

ProbeInit ==
  /\ cg_size = W
  /\ requested \in {n * W : n \in 1..MaxProbeWindows}
  /\ capacity_ = get_valid_capacity(cg_size, requested)
  /\ host = "launched"
  /\ stream = "legacy_default"
  /\ initialized = 0..(capacity_ - 1)
  /\ empty_value_sentinel_ = EmptyKey
  /\ mode \in Modes
  /\ slots = [i \in 0..(capacity_ - 1) |-> EmptySlot]
  /\ WorkersIdle

ProbeNext == \E p \in ProbeProcs : probe_initial(p) \/ probe_next(p)

SpecProbe == ProbeInit /\ [][ProbeNext]_vars

\* ------------------------------------------------------------- the host
\* What the bytes of a freshly allocated slot may hold.
UninitSlots == {[key |-> EmptyKey, value |-> ValueOf(1)],
                [key |-> 1, value |-> empty_value_sentinel_]}

\* The streams a caller may hand to a bulk call: the legacy default stream is
\* ordered after the constructor's kernel, a non-blocking stream is not.
Streams == {"legacy_default", "non_blocking"}

\* The constructor: capacity_ is get_valid_capacity<CGSize>(capacity), the
\* slots are allocated, the initialize kernel is launched on the default
\* stream, and the constructor returns without waiting for it.
static_multimap ==
  /\ host = "new"
  /\ capacity_' = get_valid_capacity(cg_size, requested)
  /\ slots' \in [0..(capacity_' - 1) -> UninitSlots]
  /\ initialized' = {}
  /\ host' = "constructed"
  /\ UNCHANGED <<empty_value_sentinel_, mode, pc, op, current_slot,
                 insert_location, key_success, res, matches, num_items, steps,
                 quiet, key_equal_args, observed, after_observed, batch,
                 requested, cg_size, stream, src_lane>>

\* One thread of the initialize kernel stores the sentinel pair in its slot.
initialize(i) ==
  /\ host # "new"
  /\ i \notin initialized
  /\ slots' = [slots EXCEPT ![i] = EmptySlot]
  /\ initialized' = initialized \cup {i}
  /\ quiet' = Disturb
  /\ UNCHANGED <<capacity_, empty_value_sentinel_, mode, pc, op, current_slot,
                 insert_location, key_success, res, matches, num_items, steps,
                 key_equal_args, observed, after_observed, batch,
                 requested, cg_size, host, stream, src_lane>>

\* A bulk call launches its kernel on the caller's stream.
bulk_launch ==
  /\ host = "constructed"
  /\ host' = "launched"
  /\ stream' \in Streams
  /\ UNCHANGED <<slots, capacity_, empty_value_sentinel_, mode, pc, op,
                 current_slot, insert_location, key_success, res, matches,
                 num_items, steps, quiet, key_equal_args, observed,
                 after_observed, batch, requested, cg_size, initialized,
                 src_lane>>

\* The workers of the launched kernel run once the stream lets them: at once
\* on a non-blocking stream, behind the initialize kernel on the default one.
KernelMayRun ==
  /\ host = "launched"
  /\ stream = "non_blocking" \/ initialized = DOMAIN slots

\* Before the constructor: nothing is allocated.
NotConstructed ==
  /\ host = "new"
  /\ capacity_ = 0
  /\ slots = [i \in {} |-> EmptySlot]
  /\ initialized = {}
  /\ stream = "legacy_default"
  /\ empty_value_sentinel_ = EmptyKey
  /\ WorkersIdle

\* Construction followed by one bulk call; one worker of its kernel is enough
\* to race the initialize kernel.
CtorProcs == {1}
CtorInit ==
  /\ cg_size = W
  /\ requested = 1
  /\ mode \in Modes
  /\ NotConstructed

CtorNext ==
  \/ static_multimap
  \/ \E i \in DOMAIN slots : initialize(i)
  \/ bulk_launch
  \/ KernelMayRun /\ \E p \in CtorProcs : Step(p)

SpecCtor == CtorInit /\ [][CtorNext]_vars

\* The constructor alone, for every requested capacity and group width.
CapacityInit ==
  /\ cg_size \in 1..MaxCGSize
  /\ requested \in 1..MaxRequested
  /\ mode = "single"
  /\ NotConstructed

SpecCapacity == CapacityInit /\ [][static_multimap]_vars


\* ================================================================ claims
IsInsert(p)  == op[p].kind = "insert"
Returned(p)  == pc[p] = "done"
Pair(p)      == [key |-> op[p].key, value |-> op[p].value]
\* A query that ran from start to end on a table no insert was changing.
QuietDone(p, kind) == op[p].kind = kind /\ Returned(p) /\ quiet[p]
\* Slots (single) or windows (cg) of one full round of the probe sequence.
ProbeRound   == IF mode = "cg" THEN capacity_ \div W ELSE capacity_

\* C1: for every insert of (k, v) that has returned, the slot it took holds
\* (k, v), in this and (the worker staying returned) in every later state: no
\* later insert, rollback store or query overwrites or removes it.
C1_InsertedPairStays ==
  \A p \in Procs :
    (IsInsert(p) /\ Returned(p)) => slots[insert_location[p]] = Pair(p)

\* C1 witness: three inserts have returned, two of them with the same key and
\* so in different slots of the same probe sequence.
C1_Witness ==
  \E p, q, r \in Procs :
    /\ p # q /\ r # p /\ r # q
    /\ IsInsert(p) /\ Returned(p) /\ IsInsert(q) /\ Returned(q)
    /\ op[p].key = op[q].key
    /\ insert_location[p] # insert_location[q]
    /\ IsInsert(r) /\ Returned(r)

\* C2: finder race. With one insert of (k, v) and a concurrent find(k), the
\* finder either reports not found or reads the value v in the slot it
\* returns; it never reports a match whose value is the empty value sentinel.
C2_FinderRace ==
  \A f, i \in Procs :
    ( /\ op[f].kind = "find" /\ Returned(f) /\ res[f].found
      /\ IsInsert(i) /\ op[i].key = op[f].key
      /\ \A j \in Procs \ {i} : ~IsInsert(j) )
    => res[f].value = op[i].value

BatchOf(p) == {q \in batch[p] : op[q].key = op[p].key}

\* C4: after a batch of concurrent inserts into the empty table has returned,
\* contains(k) is true for every inserted key and find_all(k) yields as many
\* matches as there were inserts of k.
C4_AfterBatch ==
  \A p \in Procs :
    /\ (QuietDone(p, "contains") /\ BatchOf(p) # {}) => res[p].found
    /\ (QuietDone(p, "find_all") /\ BatchOf(p) # {}) =>
         Len(matches[p]) = Cardinality(BatchOf(p))

\* C5: for a key that no insert was ever started with, contains returns false
\* and find_all yields no match, whatever inserts of other keys have run or
\* are running.
NeverInserted(k) == \A q \in Procs : ~(IsInsert(q) /\ op[q].key = k)
C5_AbsentKey ==
  \A p \in Procs :
    (Returned(p) /\ NeverInserted(op[p].key)) =>
      /\ op[p].kind = "contains" => ~res[p].found
      /\ op[p].kind = "find_all" => matches[p] = <<>>

\* C5 witness: contains and find_all of a never-inserted key have returned on
\* a table that holds another key on their probe path.
C5_Witness ==
  \E p, q \in Procs :
    /\ op[p].kind = "contains" /\ Returned(p) /\ ~res[p].found
    /\ op[q].kind = "find_all" /\ Returned(q) /\ matches[q] = <<>>
    /\ op[p].key = op[q].key /\ NeverInserted(op[p].key)
    /\ slots[InitialSlot(op[p].key)].key # EmptyKey


RECURSIVE SumOver(_, _)
\* Sum of f[x] over the finite set S.
SumOver(f, S) ==
  IF S = {} THEN 0
  ELSE LET x == CHOOSE y \in S : TRUE IN f[x] + SumOver(f, S \ {x})

\* The groups of a bulk count / find_all call.
Enumerators == {p \in Procs : op[p].kind = "find_all"}

\* C6: on a quiescent table the counter of a bulk count ends as the sum, over
\* the queried keys (one group each, a key queried twice counted twice), of
\* the number of stored pairs with that key.
C6_CountIsMultiplicity ==
  (Enumerators # {} /\ \A p \in Enumerators : Returned(p) /\ quiet[p]) =>
    num_items = SumOver([p \in Procs |-> Cardinality(BatchOf(p))], Enumerators)

\* C7: round trip. After a batch of inserts has returned, find_all(k) yields
\* exactly the values inserted with k: none missing, none duplicated, none
\* that was not inserted with k.
C7_RoundTrip ==
  \A p \in Procs :
    QuietDone(p, "find_all") =>
      /\ {matches[p][n].value : n \in 1..Len(matches[p])} =
           {op[q].value : q \in BatchOf(p)}
      /\ \A m, n \in 1..Len(matches[p]) :
           matches[p][m].slot = matches[p][n].slot => m = n

\* C8: n inserts of one key occupy n distinct slots, none ends as DUPLICATE,
\* and afterwards the enumeration counts n and find returns one of the n
\* stored values.
C8_DuplicatesKept ==
  /\ \A p, q \in Procs :
       (IsInsert(p) /\ Returned(p) /\ IsInsert(q) /\ Returned(q) /\ p # q)
         => insert_location[p] # insert_location[q]
  /\ \A p \in Procs :
       /\ pc[p] # "DUPLICATE"
       /\ QuietDone(p, "find_all") => Len(matches[p]) = Cardinality(BatchOf(p))
       /\ (QuietDone(p, "find") /\ BatchOf(p) # {}) =>
            /\ res[p].found
            /\ res[p].value \in {op[q].value : q \in BatchOf(p)}

\* C9: monotonicity. A find or contains of k that starts after a finished
\* find or contains reported k present reports k present as well.
IsPointQuery(p) == op[p].kind \in {"find", "contains"}
C9_Monotonic ==
  \A p \in Procs :
    (IsPointQuery(p) /\ Returned(p) /\ after_observed[p]) => res[p].found

\* C9 witness: a point query that started after its key had been observed
\* present has returned, and the insert of that key is still running.
C9_Witness ==
  \E p, q \in Procs :
    /\ IsPointQuery(p) /\ Returned(p) /\ after_observed[p] /\ res[p].found
    /\ IsInsert(q) /\ op[q].key = op[p].key /\ ~Returned(q)

HasAccessed(p) == pc[p] \in {"vcas", "retry", "rollback", "done"}
C11_InitBeforeUse ==
  /\ host = "constructed" => \A i \in DOMAIN slots : slots[i] = EmptySlot
  /\ \A p \in Procs : HasAccessed(p) => initialized = DOMAIN slots

\* C12: the capacity of a constructed table is the smallest multiple of the
\* group width that is >= the requested capacity: divisible by the width,
\* positive, not below the request, and less than one width above it.
C12_ValidCapacity ==
  host # "new" =>
    /\ capacity_ % cg_size = 0
    /\ capacity_ > 0
    /\ capacity_ >= requested
    /\ capacity_ - cg_size < requested

\* C12 witness: width 2 and a requested capacity of 7 give 8.
C12_Witness ==
  host # "new" /\ cg_size = 2 /\ requested = 7 /\ capacity_ = 8

\* C13: two find (or two contains) calls for the same key that both ran on
\* the same table, with no insert modifying it, return the same result (same
\* found flag, same slot, same value), and a step of a find or contains leaves
\* every slot's key and value as it was.
SameQuietTable(p, q) == quiet[p] /\ quiet[q] /\ batch[p] = batch[q]
PointQueryStep(p) ==
  /\ IsPointQuery(p) /\ pc[p] = "probe"
  /\ pc'[p] # pc[p] \/ current_slot'[p] # current_slot[p]
C13_QueryIdempotent ==
  /\ [](\A p, q \in Procs :
         ( /\ IsPointQuery(p) /\ Returned(p) /\ Returned(q)
           /\ op[p] = op[q] /\ SameQuietTable(p, q) )
         => res[p] = res[q])
  /\ [][(\E p \in Procs : PointQueryStep(p)) => slots' = slots]_vars

\* C13 witness: two finds of a stored key have returned on the same quiescent
\* table, and so have two contains of a key that is not stored.
C13_Witness ==
  \E p, q, r \in Procs :
    /\ p # q /\ r # p /\ r # q
    /\ op[p].kind = "find" /\ Returned(p) /\ Returned(q) /\ op[p] = op[q]
    /\ SameQuietTable(p, q) /\ res[p].found
    /\ IsInsert(r) /\ Returned(r)

\* The worker has won the key CAS of its slot and has not returned yet.
WonKey(p) == IsInsert(p) /\ key_success[p] /\ pc[p] \in {"vcas", "retry"}
ValueWritten(p) == Returned(p) /\ slots[insert_location[p]] = Pair(p)
\* Some insert has probed all the way round the table.
ProbesRound == \E q \in Procs : IsInsert(q) /\ steps[q] >= ProbeRound

Winner(p) == IsInsert(p) /\ key_success[p] /\ pc[p] \in {"vcas", "retry", "done"}

\* C15: a key word that is not the empty key sentinel never changes again
\* (the only write to a key word is the CAS from the sentinel), and no two
\* inserters have won the key CAS of the same slot.
C15_KeyImmutable ==
  /\ [][\A i \in DOMAIN slots :
          slots[i].key # EmptyKey => slots'[i].key = slots[i].key]_vars
  /\ [](\A p, q \in Procs :
         (p # q /\ Winner(p) /\ Winner(q)) =>
           insert_location[p] # insert_location[q])

\* C15 witness: two inserts of one key contended for the key's initial slot;
\* one holds it, the other lost the CAS there and has stored further on.
C15_Witness ==
  \E p, q \in Procs :
    /\ p # q /\ Winner(p) /\ Winner(q) /\ Returned(p) /\ Returned(q)
    /\ op[p].key = op[q].key
    /\ insert_location[p] = InitialSlot(op[p].key)
    /\ insert_location[q] # insert_location[p]
    /\ slots[insert_location[p]].key = op[p].key

\* The probe positions (slots; window bases in the cooperative protocol) of
\* key k that lie before the position that holds slot s.
WindowOf(s) == IF mode = "cg" THEN (s \div W) * W ELSE s
StepWidth == IF mode = "cg" THEN W ELSE 1
PathBefore(k, s) ==
  LET dist == ((WindowOf(s) - InitialSlot(k) + capacity_) % capacity_) \div StepWidth
  IN {(InitialSlot(k) + d * StepWidth) % capacity_ : d \in 0..(dist - 1)}
\* The slots a probe position covers.
Covered(b) == {b + r : r \in 0..(StepWidth - 1)}

\* The invariant part of C16: no position before a stored key has an empty slot.
C16_PathInvariant ==
  \A s \in DOMAIN slots :
    slots[s].key # EmptyKey =>
      \A b \in PathBefore(slots[s].key, s) :
        \A i \in Covered(b) : slots[i].key # EmptyKey

\* C16: in every state, no probe position strictly before a slot that holds
\* key k (from initial_slot(k) on) has an empty slot; and therefore a find or
\* contains that stopped at an empty slot (returned not found) proves that no
\* pair with its key had been stored when it started.
C16_ProbePath ==
  /\ C16_PathInvariant
  /\ \A p \in Procs :
       (IsPointQuery(p) /\ Returned(p) /\ ~res[p].found) => BatchOf(p) = {}

\* The window a cooperative worker has at current_slot, and what it holds.
Window(p) == {current_slot[p], current_slot[p] + 1}
EmptyIn(p) == {i \in Window(p) : slots[i].key = EmptyKey}
MatchIn(p) == {i \in Window(p) : slots[i].key = op[p].key}
\* Worker p of the cooperative insert examines the window it has loaded.
Examines(p) == mode = "cg" /\ IsInsert(p) /\ pc[p] = "load"
Elects(p) == Examines(p) /\ pc'[p] = "kcas"
Skips(p) ==
  Examines(p) /\ (steps'[p] # steps[p] \/ current_slot'[p] # current_slot[p])

\* C17: the cooperative insert treats a slot of the loaded window as empty
\* exactly when its key is the empty key sentinel, whatever the sentinels are:
\* it elects a lane only for a window that holds an empty slot, the slot it
\* then CASes on is an empty one, and it moves on to the next window only
\* from a window without an empty slot.
C17_EmptinessByKeySentinel ==
  [][\A p \in Procs :
       /\ Elects(p) => (EmptyIn(p) # {} /\ insert_location'[p] \in EmptyIn(p))
       /\ Skips(p) => EmptyIn(p) = {}]_vars

PreviousWindow(p) ==
  LET b == (current_slot[p] - W + capacity_) % capacity_ IN {b, b + 1}
C19_AdvanceOnlyFromFullWindow ==
  /\ [](\A p \in Procs :
         (mode = "cg" /\ IsInsert(p) /\ steps[p] >= 1) =>
           \A i \in PreviousWindow(p) : slots[i].key # EmptyKey)
  /\ [][\A p \in Procs :
          (mode = "cg" /\ pc[p] \in {"vcas", "rollback"} /\ pc'[p] = "load") =>
            current_slot'[p] = current_slot[p]]_vars
  /\ [][\A p \in Procs :
          ( /\ mode = "cg" /\ pc[p] \in {"vcas", "retry"} /\ key_success[p]
            /\ slots'[insert_location[p]].value = op[p].value
            /\ slots[insert_location[p]].value # op[p].value )
          => pc'[p] = "done"]_vars

\* A step of the cooperative find or contains of worker p.
CGQueryStep(p) ==
  /\ mode = "cg" /\ IsPointQuery(p) /\ pc[p] = "probe"
  /\ pc'[p] # pc[p] \/ current_slot'[p] # current_slot[p]

\* C20: a step of the cooperative find or contains on a window that holds
\* both a slot with the key and an empty slot returns the match, the lowest
\* slot of the window with that key; a match it returns is a slot with the
\* key; it returns not found only on a window with no match and an empty
\* slot; on a window with neither it advances by one window.
C20_MatchBeforeEmpty ==
  [][\A p \in Procs :
       CGQueryStep(p) =>
         /\ (MatchIn(p) # {} /\ EmptyIn(p) # {}) =>
              /\ pc'[p] = "done" /\ res'[p].found
              /\ \A i \in MatchIn(p) : res'[p].slot <= i
         /\ (pc'[p] = "done" /\ res'[p].found) => res'[p].slot \in MatchIn(p)
         /\ (pc'[p] = "done" /\ ~res'[p].found) =>
              (MatchIn(p) = {} /\ EmptyIn(p) # {})
         /\ (MatchIn(p) = {} /\ EmptyIn(p) = {}) =>
              /\ pc'[p] = "probe"
              /\ current_slot'[p] = next_slot_cg(current_slot[p])]_vars

\* C20 witness: a cooperative find has returned the match of a window whose
\* other slot is empty, while a contains of another key was probing.
C20_Witness ==
  /\ mode = "cg"
  /\ \E p, q \in Procs :
       /\ op[p].kind = "find" /\ Returned(p) /\ res[p].found
       /\ res[p].slot = current_slot[p]
       /\ slots[current_slot[p]].key = op[p].key
       /\ slots[current_slot[p] + 1].key = EmptyKey
       /\ op[q].kind = "contains" /\ pc[q] = "probe" /\ op[q].key # op[p].key

\* The distances d along the single-worker probe sequence of k at which the
\* loop of find stops: the slot holds k or is empty.
StopsAt(k) ==
  {d \in 0..(capacity_ - 1) :
     slots[(initial_slot(k) + d) % capacity_].key \in {k, EmptyKey}}
FirstStop(k) ==
  (initial_slot(k) + (CHOOSE d \in StopsAt(k) : \A e \in StopsAt(k) : d <= e))
    % capacity_

\* C21: a single-worker find or contains that returns after running on a
\* table no insert was changing stopped at the first slot of the key's probe
\* sequence that holds the key or is empty: it reports found exactly when
\* that slot holds the key, and find then returns that slot.
C21_FirstMatch ==
  [][\A p \in Procs :
       ( /\ mode = "single" /\ IsPointQuery(p) /\ quiet[p]
         /\ pc[p] = "probe" /\ pc'[p] = "done" )
       => /\ StopsAt(op[p].key) # {}
          /\ res'[p].found = (slots[FirstStop(op[p].key)].key = op[p].key)
          /\ res'[p].found => res'[p].slot = FirstStop(op[p].key)]_vars

\* C21 witness: on a quiescent table a find has passed a slot that holds
\* another key and returned the slot behind it, which holds its key.
C21_Witness ==
  /\ mode = "single"
  /\ \E p \in Procs :
       /\ QuietDone(p, "find") /\ res[p].found
       /\ res[p].slot # initial_slot(op[p].key)
       /\ slots[initial_slot(op[p].key)].key \notin {EmptyKey, op[p].key}

\* C22: a worker about to store the empty value sentinel lost its key CAS on
\* that slot and the value word still holds the value its own value CAS
\* wrote; and no step changes a value word that holds the value of the
\* worker that won the slot's key.
OwnerValue(i) ==
  \E q \in Procs :
    Winner(q) /\ insert_location[q] = i /\ slots[i].value = op[q].value
C22_RollbackOwnership ==
  /\ [](\A p \in Procs :
         pc[p] = "rollback" =>
           /\ ~key_success[p]
           /\ slots[insert_location[p]].value = op[p].value
           /\ slots[insert_location[p]].key # EmptyKey)
  /\ [][\A i \in DOMAIN slots :
          OwnerValue(i) => slots'[i].value = slots[i].value]_vars

\* C22 witness: a worker that lost the key CAS is about to roll its value
\* back while the slot's owner and a third inserter contend for the word.
C22_Witness ==
  \E p, q, r \in Procs :
    /\ p # q /\ r # p /\ r # q
    /\ pc[p] = "rollback" /\ Winner(q) /\ pc[q] = "retry"
    /\ insert_location[p] = insert_location[q]
    /\ IsInsert(r) /\ pc[r] = "vcas" /\ ~key_success[r]
    /\ insert_location[r] = insert_location[q]

\* C25: in every state a slot whose key is the empty key sentinel has the
\* empty value sentinel as its value.
C25_NoOrphanValue ==
  \A i \in DOMAIN slots :
    slots[i].key = EmptyKey => slots[i].value = empty_value_sentinel_

\* C25 witness: in the middle of a rollback (a taken slot holds the value of
\* a worker that lost its key) another slot of the table is still empty.
C25_Witness ==
  \E p \in Procs :
    /\ pc[p] = "rollback"
    /\ slots[insert_location[p]].value = op[p].value
    /\ slots[insert_location[p]].key # op[p].key
    /\ \E i \in DOMAIN slots : slots[i].key = EmptyKey

\* No slot of the table is empty any more.
TableFull == \A i \in DOMAIN slots : slots[i].key # EmptyKey
\* The table has room for the pair of every worker.
RoomForAll == capacity_ >= NumProcs

\* C23: under weak fairness every insert into a table with an empty slot
\* for each of the concurrent inserts eventually returns, and an insert that
\* never returns runs on a table that has no empty slot left.
C23_InsertTerminates ==
  /\ \A p \in Procs : (IsInsert(p) /\ RoomForAll) ~> Returned(p)
  /\ \A p \in Procs : IsInsert(p) ~> (Returned(p) \/ TableFull)

\* C23 for the runs in which the two sentinels are equal.
SentinelsEqual == empty_value_sentinel_ = EmptyKey
C23_EqualSentinels ==
  /\ \A p \in Procs :
       (IsInsert(p) /\ SentinelsEqual /\ RoomForAll) ~> Returned(p)
  /\ \A p \in Procs :
       (IsInsert(p) /\ SentinelsEqual) ~> (Returned(p) \/ TableFull)

RECURSIVE Iterate(_, _)
\* next_slot applied n times to s.
Iterate(s, n) == IF n = 0 THEN s ELSE NextSlot(Iterate(s, n - 1))

\* The positions a probe sequence can take: every slot, or every window base.
Positions ==
  IF mode = "cg" THEN {w * W : w \in 0..((capacity_ \div W) - 1)}
  ELSE 0..(capacity_ - 1)

\* C24: the probe sequence of every hash value stays on the positions of the
\* table (slots, or window bases: multiples of W), does not come back to a
\* position before one round is over, and after one round (capacity steps,
\* or capacity/W) has visited every position and is back at its start.
C24_ProbeCoverage ==
  \A p \in ProbeProcs :
    pc[p] = "walk" =>
      LET start   == InitialSlot(op[p].key)
          visited == {Iterate(start, m) : m \in 0..(steps[p] - 1)}
      IN /\ current_slot[p] \in Positions
         /\ current_slot[p] \in 0..(capacity_ - 1)
         /\ mode = "cg" => current_slot[p] % W = 0
         /\ steps[p] < ProbeRound => current_slot[p] \notin visited
         /\ Cardinality(visited) = steps[p]
         /\ steps[p] = ProbeRound =>
              (visited = Positions /\ current_slot[p] = start)

\* C24 witness: capacity 8 and a hash value of 9; the cooperative sequence
\* starts at window base 2 and is back there after capacity/W = 4 steps.
C24_Witness ==
  \E p \in ProbeProcs :
    /\ pc[p] = "walk" /\ mode = "cg" /\ capacity_ = 8 /\ op[p].key = 9
    /\ steps[p] = 4 /\ current_slot[p] = 2

\* A find or contains of worker p is probing; the table holds an empty slot
\* or a slot with its key.
Probing(p) == IsPointQuery(p) /\ pc[p] = "probe"
Terminable(p) ==
  \E i \in DOMAIN slots : slots[i].key \in {EmptyKey, op[p].key}

\* C26: on a table that no insert is changing, a find or contains (either
\* protocol) returns if the table holds an empty slot or a slot with its key,
\* and never returns if the table is full and does not hold its key.
C26_QueryTerminatesIff ==
  /\ \A p \in Procs : (Probing(p) /\ Terminable(p)) ~> Returned(p)
  /\ [][\A p \in Procs :
          (Probing(p) /\ ~Terminable(p)) => pc'[p] # "done"]_vars

\* C26 for the single-worker protocol.
C26_SingleWorker ==
  /\ \A p \in Procs :
       (mode = "single" /\ Probing(p) /\ Terminable(p)) ~> Returned(p)
  /\ [][\A p \in Procs :
          (mode = "single" /\ Probing(p) /\ ~Terminable(p)) =>
            pc'[p] # "done"]_vars

====
